---- MODULE Spec2Model ----
(***************************************************************************)
(* Model of the Deck container of src/src/lib.rs: three piles (draw,       *)
(* discard, removed), the double-ended draw/put operations, the shuffles,  *)
(* the inspection helpers, and sparse insertion (put_sparse with its       *)
(* bucket-splitting helper split).                                         *)
(*                                                                         *)
(* Vec<T> is a sequence; Rust indices are 0-based and are kept 0-based in  *)
(* the operators below (At adds the 1 that TLA+ sequences need).           *)
(* Besides the three piles the state records the last call: its name, its  *)
(* arguments, its return value, the piles as they were when it was called, *)
(* and whether it ended normally, panicked or never returned.              *)
(***************************************************************************)
EXTENDS Integers, Sequences, FiniteSets

VARIABLES draw_pile, discard_pile, removed_pile, op, args, ret, pre, fault

vars == <<draw_pile, discard_pile, removed_pile, op, args, ret, pre, fault>>

(* ---- bounds of the model ---- *)

\* The element type T is opaque; two distinguishable values.
Items == {1, 2}
\* The caller owns at most this many cards: nothing is put on a pile once the
\* three piles together would hold more.
MaxCards == 6
\* Largest `buckets` argument given to put_sparse.
MaxBuckets == 3

(* ---- Option<T> and the other return values, all as sequences ---- *)

None == << >>
Some(v) == <<v>>
Unit == << >>

(* ---- Vec<T> primitives used by the code ---- *)

\* v[i] panics when i >= v.len()
InBounds(v, i) == i >= 0 /\ i < Len(v)
At(v, i) == v[i + 1]

\* draw_bottom without its emptiness test
is_empty_never(v) == FALSE
is_empty(v) == Len(v) = 0

VecPush(v, x) == Append(v, x)

\* Vec::pop: the value returned and the vector left
VecPop(v) ==
    IF Len(v) = 0
    THEN [value |-> None, rest |-> v]
    ELSE [value |-> Some(v[Len(v)]), rest |-> SubSeq(v, 1, Len(v) - 1)]

\* insert that rotates the vector around the new element
VecInsertRotated(v, index, x) == SubSeq(v, index + 1, Len(v)) \o <<x>> \o SubSeq(v, 1, index)

\* Vec::insert(index, x): everything from index on shifts right (index <= len)
VecInsert(v, index, x) == SubSeq(v, 1, index) \o <<x>> \o SubSeq(v, index + 1, Len(v))

\* swap_remove instead of remove: the last element takes the freed slot
VecSwapRemove(v, index) ==
    IF index + 1 = Len(v)
    THEN SubSeq(v, 1, index)
    ELSE SubSeq(v, 1, index) \o <<v[Len(v)]>> \o SubSeq(v, index + 2, Len(v) - 1)

\* Vec::remove(index): everything after index shifts left (index < len)
VecRemove(v, index) == SubSeq(v, 1, index) \o SubSeq(v, index + 2, Len(v))

\* the half-open range lo..hi
GenRangeExclusive(lo, hi) == lo..(hi - 1)

\* rng.gen_range(lo..=hi)
GenRange(lo, hi) == lo..hi

\* slice.shuffle(rng): any rearrangement of the same elements
CountOf(v, x) == Cardinality({i \in 1..Len(v) : v[i] = x})
Shuffles(v) == {s \in [1..Len(v) -> Items] : \A x \in Items : CountOf(s, x) = CountOf(v, x)}

(* ---- split (lib.rs 86-103) ---- *)

\* the remainder is never handed out
BucketSizeNoCarry(bucket_standard_size, carry) == bucket_standard_size
\* the remainder is never used up
CarryKept(carry) == carry

\* line 94: bucket_standard_size + if carry > 0 { carry -= 1; 1 } else { 0 }
BucketSize(bucket_standard_size, carry) == bucket_standard_size + (IF carry > 0 THEN 1 ELSE 0)
CarryAfter(carry) == IF carry > 0 THEN carry - 1 ELSE carry

\* The while loop of split. A read source[start + i] past the end panics; a
\* bucket of size 0 inside the loop leaves start where it was, so the loop
\* never ends.
RECURSIVE splitLoop(_, _, _, _, _)
splitLoop(source, bucket_standard_size, carry, start, elements) ==
    IF ~(start < Len(source))
    THEN [elements |-> elements, fault |-> "none"]
    ELSE LET size == BucketSize(bucket_standard_size, carry)
         IN  IF \E i \in 0..(size - 1) : ~InBounds(source, start + i)
             THEN [elements |-> elements, fault |-> "panic"]
             ELSE IF size = 0
             THEN [elements |-> elements, fault |-> "hang"]
             ELSE splitLoop(source, bucket_standard_size, CarryAfter(carry), start + size,
                            Append(elements, [i \in 1..size |-> At(source, start + i - 1)]))

\* source.len() / n and source.len() % n panic when n = 0
split(source, n) ==
    IF n = 0
    THEN [elements |-> << >>, fault |-> "panic"]
    ELSE splitLoop(source, Len(source) \div n, Len(source) % n, 0, << >>)

(* ---- put_sparse (lib.rs 43-57) ---- *)

\* put_sparse without its early return
put_sparse_never_returns_early(buckets) == FALSE

\* lines 44-46
put_sparse_returns_early(buckets) == buckets = 0

\* lines 51-56: every draw pile the for loop can build from the buckets, one
\* random index per bucket
RECURSIVE fillBuckets(_, _, _, _)
fillBuckets(elements, x, k, acc) ==
    IF k > Len(elements)
    THEN {acc}
    ELSE UNION { fillBuckets(elements, x, k + 1, acc \o VecInsert(elements[k], index, x)) :
                    index \in GenRange(0, Len(elements[k])) }

(* ---- the state ---- *)

Piles == [draw |-> draw_pile, discard |-> discard_pile, removed |-> removed_pile]
Cards == Len(draw_pile) + Len(discard_pile) + Len(removed_pile)

\* Deck::new
Init ==
    /\ draw_pile = << >>
    /\ discard_pile = << >>
    /\ removed_pile = << >>
    /\ op = "new"
    /\ args = << >>
    /\ ret = Unit
    /\ pre = [draw |-> << >>, discard |-> << >>, removed |-> << >>]
    /\ fault = "none"

\* What every call records about itself.
Called(name, arguments) ==
    /\ fault = "none"
    /\ op' = name
    /\ args' = arguments
    /\ pre' = Piles

CanDraw ==
    /\ Called("can_draw", << >>)
    /\ ret' = <<Len(draw_pile) > 0>>
    /\ fault' = "none"
    /\ UNCHANGED <<draw_pile, discard_pile, removed_pile>>

DrawTop ==
    /\ Called("draw_top", << >>)
    /\ ret' = VecPop(draw_pile).value
    /\ draw_pile' = VecPop(draw_pile).rest
    /\ fault' = "none"
    /\ UNCHANGED <<discard_pile, removed_pile>>

DrawBottom ==
    /\ Called("draw_bottom", << >>)
    /\ IF is_empty(draw_pile)
       THEN /\ ret' = None
            /\ fault' = "none"
            /\ UNCHANGED draw_pile
       ELSE IF ~InBounds(draw_pile, 0)
       THEN /\ ret' = Unit
            /\ fault' = "panic"
            /\ UNCHANGED draw_pile
       ELSE /\ ret' = Some(At(draw_pile, 0))
            /\ draw_pile' = VecRemove(draw_pile, 0)
            /\ fault' = "none"
    /\ UNCHANGED <<discard_pile, removed_pile>>

PutTop(x) ==
    /\ Cards < MaxCards
    /\ Called("put_top", <<x>>)
    /\ draw_pile' = VecPush(draw_pile, x)
    /\ ret' = Unit
    /\ fault' = "none"
    /\ UNCHANGED <<discard_pile, removed_pile>>

PutBottom(x) ==
    /\ Cards < MaxCards
    /\ Called("put_bottom", <<x>>)
    /\ draw_pile' = VecInsert(draw_pile, 0, x)
    /\ ret' = Unit
    /\ fault' = "none"
    /\ UNCHANGED <<discard_pile, removed_pile>>

PutSparse(x, buckets) ==
    /\ Cards + buckets <= MaxCards
    /\ Called("put_sparse", <<x, buckets>>)
    /\ ret' = Unit
    /\ IF put_sparse_returns_early(buckets)
       THEN /\ fault' = "none"
            /\ UNCHANGED draw_pile
       ELSE LET s == split(draw_pile, buckets)
            IN  IF s.fault # "none"
                THEN /\ fault' = s.fault
                     /\ UNCHANGED draw_pile
                ELSE /\ fault' = "none"
                     /\ draw_pile' \in fillBuckets(s.elements, x, 1, << >>)
    /\ UNCHANGED <<discard_pile, removed_pile>>

\* discard that pushes onto the draw pile
DiscardOntoDraw(x) ==
    /\ Cards < MaxCards
    /\ Called("discard", <<x>>)
    /\ draw_pile' = VecPush(draw_pile, x)
    /\ ret' = Unit
    /\ fault' = "none"
    /\ UNCHANGED <<discard_pile, removed_pile>>

Discard(x) ==
    /\ Cards < MaxCards
    /\ Called("discard", <<x>>)
    /\ discard_pile' = VecPush(discard_pile, x)
    /\ ret' = Unit
    /\ fault' = "none"
    /\ UNCHANGED <<draw_pile, removed_pile>>

Remove(x) ==
    /\ Cards < MaxCards
    /\ Called("remove", <<x>>)
    /\ removed_pile' = VecPush(removed_pile, x)
    /\ ret' = Unit
    /\ fault' = "none"
    /\ UNCHANGED <<draw_pile, discard_pile>>

Remaining ==
    /\ Called("remaining", << >>)
    /\ ret' = <<Len(draw_pile)>>
    /\ fault' = "none"
    /\ UNCHANGED <<draw_pile, discard_pile, removed_pile>>

SeeDraw ==
    /\ Called("see_draw", << >>)
    /\ ret' = draw_pile
    /\ fault' = "none"
    /\ UNCHANGED <<draw_pile, discard_pile, removed_pile>>

SeeDiscarded ==
    /\ Called("see_discarded", << >>)
    /\ ret' = discard_pile
    /\ fault' = "none"
    /\ UNCHANGED <<draw_pile, discard_pile, removed_pile>>

SeeRemoved ==
    /\ Called("see_removed", << >>)
    /\ ret' = removed_pile
    /\ fault' = "none"
    /\ UNCHANGED <<draw_pile, discard_pile, removed_pile>>

ShuffleDraw ==
    /\ Called("shuffle_draw", << >>)
    /\ draw_pile' \in Shuffles(draw_pile)
    /\ ret' = Unit
    /\ fault' = "none"
    /\ UNCHANGED <<discard_pile, removed_pile>>

ShuffleDiscard ==
    /\ Called("shuffle_discard", << >>)
    /\ discard_pile' \in Shuffles(discard_pile)
    /\ ret' = Unit
    /\ fault' = "none"
    /\ UNCHANGED <<draw_pile, removed_pile>>

Next ==
    \/ CanDraw
    \/ DrawTop
    \/ DrawBottom
    \/ \E x \in Items : PutTop(x)
    \/ \E x \in Items : PutBottom(x)
    \/ \E x \in Items : \E buckets \in 0..MaxBuckets : PutSparse(x, buckets)
    \/ \E x \in Items : Discard(x)
    \/ \E x \in Items : Remove(x)
    \/ Remaining
    \/ SeeDraw
    \/ SeeDiscarded
    \/ SeeRemoved
    \/ ShuffleDraw
    \/ ShuffleDiscard

Spec == Init /\ [][Next]_vars

(* ======================================================================= *)
(* The claims                                                              *)
(* ======================================================================= *)

\* The last call was put_sparse(SparseX, SparseN) on a draw pile of length SparseL.
SparseCalled == op = "put_sparse"
SparseX == args[1]
SparseN == args[2]
SparseL == Len(pre.draw)

\* Remainder distribution over n buckets of L elements, buckets numbered from 1:
\* the size of bucket i and the number of elements in the buckets before it.
ExpectedSize(L, n, i) == (L \div n) + (IF i <= L % n THEN 1 ELSE 0)
ExpectedStart(L, n, i) == (i - 1) * (L \div n) + (IF i - 1 <= L % n THEN i - 1 ELSE L % n)

\* v without the element at position p (1-based)
RemoveAt(v, p) == [i \in 1..(Len(v) - 1) |-> IF i < p THEN v[i] ELSE v[i + 1]]

\* v without the elements at the positions in S (1-based)
RECURSIVE WithoutPositions(_, _, _)
WithoutPositions(v, S, k) ==
    IF k > Len(v)
    THEN << >>
    ELSE (IF k \in S THEN << >> ELSE <<v[k]>>) \o WithoutPositions(v, S, k + 1)

\* The pile that results when, for each bucket i of the remainder distribution,
\* x goes to insertion point at[i] (0 = before all of the bucket's elements).
RECURSIVE PileWithInsertions(_, _, _, _, _)
PileWithInsertions(original, n, x, at, i) ==
    IF i > n
    THEN << >>
    ELSE LET start == ExpectedStart(Len(original), n, i)
             size == ExpectedSize(Len(original), n, i)
         IN  SubSeq(original, start + 1, start + at[i]) \o <<x>>
                \o SubSeq(original, start + at[i] + 1, start + size)
                \o PileWithInsertions(original, n, x, at, i + 1)

\* C1: after put_sparse with n buckets on a draw pile of length L, draw has
\* exactly L + n elements, for every L >= 0 and n >= 0.
C1_LengthGrowsByN ==
    SparseCalled => Len(draw_pile) = SparseL + SparseN

\* C2: after put_sparse with n >= 1, deleting the newly inserted elements
\* (some positions of draw that all hold the inserted value) leaves exactly
\* the draw pile held before the call.
C2_OrderPreserved ==
    (SparseCalled /\ SparseN >= 1) =>
        \E S \in SUBSET (1..Len(draw_pile)) :
            /\ \A p \in S : draw_pile[p] = SparseX
            /\ WithoutPositions(draw_pile, S, 1) = pre.draw

C2_Witness ==
    /\ SparseCalled
    /\ SparseN = 2
    /\ pre.draw = <<1, 2, 1>>
    /\ SparseX = 2
    /\ draw_pile = <<1, 2, 2, 2, 1>>

\* C3: for 1 <= n <= L, split cuts the L original elements into exactly n
\* contiguous buckets, in order, the first L mod n of size floor(L/n) + 1 and
\* the others of size floor(L/n).
C3_BucketSizes ==
    (SparseCalled /\ 1 <= SparseN /\ SparseN <= SparseL) =>
        LET e == split(pre.draw, SparseN).elements
        IN  /\ Len(e) = SparseN
            /\ \A i \in 1..SparseN :
                  /\ Len(e[i]) = ExpectedSize(SparseL, SparseN, i)
                  /\ e[i] = SubSeq(pre.draw, ExpectedStart(SparseL, SparseN, i) + 1,
                                   ExpectedStart(SparseL, SparseN, i) + Len(e[i]))

C3_Witness ==
    /\ SparseCalled
    /\ SparseN = 2
    /\ pre.draw = <<1, 2, 1>>
    /\ fault = "none"
    /\ Len(draw_pile) = 5

\* C4: for 1 <= n <= L, cutting draw after put_sparse into n consecutive
\* segments of length bucket size + 1 leaves in each segment one inserted
\* element, the rest being that bucket's original elements in order; and each
\* of the bucket size + 1 insertion points of every bucket is a possible outcome.
C4_OnePerBucket ==
    (SparseCalled /\ 1 <= SparseN /\ SparseN <= SparseL) =>
        /\ \A i \in 1..SparseN :
              LET start == ExpectedStart(SparseL, SparseN, i)
                  size == ExpectedSize(SparseL, SparseN, i)
                  segment == SubSeq(draw_pile, start + i, start + i + size)
              IN  /\ Len(segment) = size + 1
                  /\ \E p \in 1..(size + 1) :
                        /\ segment[p] = SparseX
                        /\ RemoveAt(segment, p) = SubSeq(pre.draw, start + 1, start + size)
        /\ \A at \in [1..SparseN -> 0..SparseL] :
              (\A i \in 1..SparseN : at[i] <= ExpectedSize(SparseL, SparseN, i)) =>
                 PileWithInsertions(pre.draw, SparseN, SparseX, at, 1)
                    \in fillBuckets(split(pre.draw, SparseN).elements, SparseX, 1, << >>)

\* the inserted element after all of the first bucket and before all of the second
C4_Witness ==
    /\ SparseCalled
    /\ SparseN = 2
    /\ pre.draw = <<1, 1, 1>>
    /\ SparseX = 2
    /\ draw_pile = <<1, 1, 2, 2, 1>>

\* C5: put_sparse on an empty draw pile with n > 0 leaves draw holding exactly
\* the n new elements.
C5_EmptyDrawGetsAll ==
    (SparseCalled /\ SparseL = 0 /\ SparseN > 0) =>
        draw_pile = [i \in 1..SparseN |-> SparseX]

\* C6: put_sparse with n = 0 leaves the three piles as they were and returns
\* without dividing by n.
C6_ZeroBucketsNoOp ==
    (SparseCalled /\ SparseN = 0) =>
        /\ draw_pile = pre.draw
        /\ discard_pile = pre.discard
        /\ removed_pile = pre.removed
        /\ fault = "none"

C6_Witness ==
    /\ SparseCalled
    /\ SparseN = 0
    /\ draw_pile = <<1, 2, 2>>
    /\ discard_pile # << >>
    /\ removed_pile # << >>

\* C7: the draw pile is a double-ended queue: put_top(x) makes x the last
\* element, put_bottom(x) makes x the first and shifts the others up,
\* draw_top returns and removes the last, draw_bottom returns and removes the
\* first, and all other elements keep their relative order.
C7_DequeBehaviour ==
    /\ op = "put_top" =>
          /\ Len(draw_pile) = Len(pre.draw) + 1
          /\ draw_pile[Len(draw_pile)] = args[1]
          /\ \A i \in 1..Len(pre.draw) : draw_pile[i] = pre.draw[i]
    /\ op = "put_bottom" =>
          /\ Len(draw_pile) = Len(pre.draw) + 1
          /\ draw_pile[1] = args[1]
          /\ \A i \in 1..Len(pre.draw) : draw_pile[i + 1] = pre.draw[i]
    /\ (op = "draw_top" /\ pre.draw # << >>) =>
          /\ ret = <<pre.draw[Len(pre.draw)]>>
          /\ Len(draw_pile) = Len(pre.draw) - 1
          /\ \A i \in 1..Len(draw_pile) : draw_pile[i] = pre.draw[i]
    /\ (op = "draw_bottom" /\ pre.draw # << >>) =>
          /\ ret = <<pre.draw[1]>>
          /\ Len(draw_pile) = Len(pre.draw) - 1
          /\ \A i \in 1..Len(draw_pile) : draw_pile[i] = pre.draw[i + 1]

C7_Witness ==
    /\ op = "draw_bottom"
    /\ pre.draw = <<1, 2, 2, 1>>
    /\ ret = <<1>>
    /\ draw_pile = <<2, 2, 1>>

\* C8: draw_top and draw_bottom on an empty draw pile return None without
\* failing and leave the three piles unchanged; on a non-empty draw pile they
\* return a present value.
C8_EmptyDrawIsNone ==
    (op \in {"draw_top", "draw_bottom"}) =>
        /\ fault = "none"
        /\ pre.draw = << >> =>
              /\ ret = None
              /\ draw_pile = pre.draw
              /\ discard_pile = pre.discard
              /\ removed_pile = pre.removed
        /\ pre.draw # << >> =>
              /\ Len(ret) = 1
              /\ ret[1] \in Items

C8_Witness ==
    /\ op = "draw_bottom"
    /\ pre.draw = << >>
    /\ ret = None
    /\ discard_pile # << >>

\* C9: no call panics or fails to return: split is never run with n = 0, each
\* bucket it builds in its loop has at least one element, and none of its
\* reads of source is out of bounds, for every L >= 0 and n >= 1.
C9_NoPanic ==
    /\ fault = "none"
    /\ (SparseCalled /\ SparseN >= 1) =>
          LET s == split(pre.draw, SparseN)
          IN  /\ s.fault = "none"
              /\ \A i \in 1..Len(s.elements) : Len(s.elements[i]) >= 1

C9_Witness ==
    /\ SparseCalled
    /\ SparseL >= 2
    /\ SparseN > SparseL
    /\ fault = "none"

\* C10: discard(x) appends x to discard and leaves draw and removed alone;
\* remove(x) appends x to removed and leaves draw and discard alone; the
\* length of draw changes only in draw_top, draw_bottom, put_top, put_bottom
\* and put_sparse.
C10_PilesIndependent ==
    /\ op = "discard" =>
          /\ discard_pile = pre.discard \o <<args[1]>>
          /\ draw_pile = pre.draw
          /\ removed_pile = pre.removed
    /\ op = "remove" =>
          /\ removed_pile = pre.removed \o <<args[1]>>
          /\ draw_pile = pre.draw
          /\ discard_pile = pre.discard
    /\ Len(draw_pile) # Len(pre.draw) =>
          op \in {"draw_top", "draw_bottom", "put_top", "put_bottom", "put_sparse"}

C10_Witness ==
    /\ op = "discard"
    /\ pre.discard = <<1>>
    /\ discard_pile = <<1, 2>>
    /\ draw_pile # << >>
    /\ removed_pile # << >>

====
